---- MODULE Spec2Model ----
(***************************************************************************)
(* Model of the recogito-js text Highlighter (src/unnamed/part_000) and of *)
(* the SelectionHandler (src/src/selection/SelectionHandler.js).           *)
(*                                                                         *)
(* The container element's subtree is a sequence of tokens in document     *)
(* order: a text node, the opening of an element, the closing of an        *)
(* element.  A node is named by the index of its token (an element by its  *)
(* opening token); 0 names the container element `this.el` itself.         *)
(***************************************************************************)
EXTENDS Integers, Sequences, FiniteSets, TLC

\* ------------------------------------------------------------------ bounds
TextLen == 3            \* characters of the container's plain text
MaxId == 2              \* annotation ids are 1..MaxId
MaxBatches == 1         \* init calls per behaviour
MaxCalls == 3           \* calls of the public operations and user events
MaxInits == 2           \* init calls where one init follows another

RENDER_BATCH_SIZE == 100

\* The plain text of the container: character i is the number i.
PlainText == [i \in 1..TextLen |-> i]

\* ------------------------------------------------------------- annotations
NoAnno == [id |-> 0, start |-> -1, end |-> -1, type |-> "none", sel |-> FALSE]

Anno(id, start, end, type) ==
  [id |-> id, start |-> start, end |-> end, type |-> type, sel |-> TRUE]

\* ------------------------------------------------------------------ tokens
TextNode(s) ==
  [k |-> "T", s |-> s, cls |-> "", id |-> 0, anno |-> NoAnno,
   hover |-> FALSE, isNew |-> FALSE]

\* document.createElement('SPAN'): no class, no data-id, no annotation
createElement ==
  [k |-> "O", s |-> <<>>, cls |-> "", id |-> 0, anno |-> NoAnno,
   hover |-> FALSE, isNew |-> TRUE]

PlainElement ==
  [k |-> "O", s |-> <<>>, cls |-> "", id |-> 0, anno |-> NoAnno,
   hover |-> FALSE, isNew |-> FALSE]

CloseTag ==
  [k |-> "C", s |-> <<>>, cls |-> "", id |-> 0, anno |-> NoAnno,
   hover |-> FALSE, isNew |-> FALSE]

IsText(d, i) == d[i].k = "T"
IsElement(d, i) == d[i].k = "O"

RECURSIVE Flatten(_)
Flatten(ss) == IF ss = <<>> THEN <<>> ELSE Head(ss) \o Flatten(Tail(ss))

Substring(s, from, to) == SubSeq(s, from + 1, to)

\* ------------------------------------------------------------- tree shape
RECURSIVE scanClose(_, _, _)
scanClose(d, j, depth) ==
  IF d[j].k = "O" THEN scanClose(d, j + 1, depth + 1)
  ELSE IF d[j].k = "C"
       THEN IF depth = 0 THEN j ELSE scanClose(d, j + 1, depth - 1)
       ELSE scanClose(d, j + 1, depth)

\* the closing token of the element opened at i
MatchClose(d, i) == scanClose(d, i + 1, 0)

\* the last token of node i
NodeEnd(d, i) == IF IsElement(d, i) THEN MatchClose(d, i) ELSE i

\* the elements that contain node i, the container excluded
Ancestors(d, i) ==
  {j \in 1..(i - 1) : IsElement(d, j) /\ MatchClose(d, j) > i}

\* node.parentNode; 0 is the container
parentNode(d, i) ==
  IF Ancestors(d, i) = {} THEN 0
  ELSE CHOOSE j \in Ancestors(d, i) : \A a \in Ancestors(d, i) : a <= j

RECURSIVE childrenFrom(_, _, _)
childrenFrom(d, j, stop) ==
  IF j >= stop THEN <<>>
  ELSE <<j>> \o childrenFrom(d, NodeEnd(d, j) + 1, stop)

\* node.childNodes, e = 0 for the container
childNodes(d, e) ==
  IF e = 0 THEN childrenFrom(d, 1, Len(d) + 1)
  ELSE childrenFrom(d, e + 1, MatchClose(d, e))

\* the token before which the boundary point (e, k) of an element lies
Gap(d, e, k) ==
  LET cs == childNodes(d, e) IN
  IF k < Len(cs) THEN cs[k + 1]
  ELSE IF e = 0 THEN Len(d) + 1 ELSE MatchClose(d, e)

\* node.textContent
RECURSIVE textOf(_, _, _)
textOf(d, i, j) ==
  IF i > j THEN <<>> ELSE d[i].s \o textOf(d, i + 1, j)

textContent(d, i) == textOf(d, i, NodeEnd(d, i))

ContainerText(d) == textOf(d, 1, Len(d))

\* ------------------------------------------------------------ Offset Mapper
RECURSIVE walkFrom(_, _, _, _)
walkFrom(d, i, runningOffset, stopOffset) ==
  IF i > Len(d) THEN <<>>
  ELSE IF ~IsText(d, i) THEN walkFrom(d, i + 1, runningOffset, stopOffset)
  ELSE LET r == runningOffset + Len(d[i].s) IN
       IF r > stopOffset THEN <<i>>
       ELSE <<i>> \o walkFrom(d, i + 1, r, stopOffset)

walkTextNodes(d, stopOffset) == walkFrom(d, 1, 0, stopOffset)

RECURSIVE textNodeProps(_, _, _)
textNodeProps(d, nodes, start) ==
  IF nodes = <<>> THEN <<>>
  ELSE LET n == Head(nodes)
           nodeLength == Len(d[n].s)
       IN <<[node |-> n, start |-> start, end |-> start + nodeLength]>>
            \o textNodeProps(d, Tail(nodes), start + nodeLength)

\* a forEach that attaches an offset to every leaf that takes it in
RECURSIVE forEachOffsetAgain(_, _, _)
forEachOffsetAgain(props, charOffsets, positions) ==
  IF charOffsets = <<>> THEN positions
  ELSE LET charOffset == Head(charOffsets) IN
       forEachOffsetAgain(
         props, Tail(charOffsets),
         IF charOffset >= props.start /\ charOffset <= props.end
         THEN Append(positions,
                     [charOffset |-> charOffset, node |-> props.node,
                      offset |-> charOffset - props.start])
         ELSE positions)

\* the inner charOffsets.forEach of calculateDomPositionWithin
RECURSIVE forEachOffset(_, _, _)
forEachOffset(props, charOffsets, positions) ==
  IF charOffsets = <<>> THEN positions
  ELSE LET charOffset == Head(charOffsets)
           inside == charOffset >= props.start /\ charOffset <= props.end
           previousOffset ==
             IF Len(positions) > 0
             THEN positions[Len(positions)].charOffset ELSE -2
           pushed ==
             IF inside /\ previousOffset # charOffset
             THEN Append(positions,
                         [charOffset |-> charOffset, node |-> props.node,
                          offset |-> charOffset - props.start])
             ELSE positions
       IN forEachOffset(props, Tail(charOffsets), pushed)

RECURSIVE forEachProps(_, _, _)
forEachProps(textNodeProperties, charOffsets, positions) ==
  IF textNodeProperties = <<>> THEN positions
  ELSE forEachProps(Tail(textNodeProperties), charOffsets,
                    forEachOffset(Head(textNodeProperties), charOffsets,
                                  positions))

calculateDomPositionWithin(textNodeProperties, charOffsets) ==
  forEachProps(textNodeProperties, charOffsets, <<>>)

Max(a, b) == IF a >= b THEN a ELSE b

charOffsetsToDOMPosition(d, charOffsets) ==
  LET maxOffset == Max(charOffsets[1], charOffsets[2]) IN
  calculateDomPositionWithin(
    textNodeProps(d, walkTextNodes(d, maxOffset), 0), charOffsets)

\* ---------------------------------------------------------------- ranges
\* A Range: the start and end containers (nodes, 0 = the container element)
\* and offsets (a character offset in a text node, a child index otherwise).
createRange(sc, so, ec, eo) == [sc |-> sc, so |-> so, ec |-> ec, eo |-> eo]

InclusiveAncestors(d, n) == IF n = 0 THEN {0} ELSE Ancestors(d, n) \cup {n, 0}

\* Range.surroundContents throws when a non-Text node is partially contained
partiallyContainsNonText(d, startNode, endNode) ==
  LET a == InclusiveAncestors(d, startNode)
      b == InclusiveAncestors(d, endNode)
  IN \E n \in (a \ b) \cup (b \ a) : n = 0 \/ IsElement(d, n)

\* textNodesBetween(startNode, endNode, rootNode), the loop over the text nodes
RECURSIVE betweenFrom(_, _, _, _, _)
betweenFrom(d, i, take, startNode, endNode) ==
  IF i > Len(d) THEN <<>>
  ELSE IF ~IsText(d, i) THEN betweenFrom(d, i + 1, take, startNode, endNode)
  ELSE LET take1 == IF i = endNode THEN FALSE ELSE take
           take2 == IF i = startNode THEN TRUE ELSE take1
       IN (IF take1 THEN <<i>> ELSE <<>>)
            \o betweenFrom(d, i + 1, take2, startNode, endNode)

textNodesBetween(d, startNode, endNode) ==
  betweenFrom(d, 1, FALSE, startNode, endNode)

\* surroundContents on a range inside one text node
surroundInText(d, n, from, to) ==
  LET s == d[n].s IN
  SubSeq(d, 1, n - 1)
    \o << TextNode(Substring(s, 0, from)), createElement,
          TextNode(Substring(s, from, to)), CloseTag,
          TextNode(Substring(s, to, Len(s))) >>
    \o SubSeq(d, n + 1, Len(d))

\* a surround that loses the text behind the range's end
surroundUpToEnd(d, n, to) ==
  SubSeq(d, 1, n - 1)
    \o << createElement, TextNode(Substring(d[n].s, 0, to)), CloseTag >>
    \o SubSeq(d, n + 1, Len(d))

\* surroundContents on a range from before text node n to offset `to` in it
surroundUpTo(d, n, to) ==
  LET s == d[n].s IN
  SubSeq(d, 1, n - 1)
    \o << createElement, TextNode(Substring(s, 0, to)), CloseTag,
          TextNode(Substring(s, to, Len(s))) >>
    \o SubSeq(d, n + 1, Len(d))

\* surroundContents on a range between two child indexes of one element
surroundChildren(d, e, from, to) ==
  LET g1 == Gap(d, e, from)
      g2 == Gap(d, e, to)
  IN SubSeq(d, 1, g1 - 1) \o <<createElement>> \o SubSeq(d, g1, g2 - 1)
       \o <<CloseTag>> \o SubSeq(d, g2, Len(d))

\* the surround helper of wrapRange: the wrapper, or null when the tree
\* refuses.  ok = FALSE stands for null; the tree is then unchanged.
surround(d, range) ==
  IF partiallyContainsNonText(d, range.sc, range.ec)
  THEN [ok |-> FALSE, d |-> d]
  ELSE IF range.sc = range.ec
  THEN IF range.sc # 0 /\ IsText(d, range.sc)
       THEN [ok |-> TRUE,
             d |-> surroundInText(d, range.sc, range.so, range.eo)]
       ELSE [ok |-> TRUE,
             d |-> surroundChildren(d, range.sc, range.so, range.eo)]
  ELSE [ok |-> TRUE, d |-> surroundUpTo(d, range.ec, range.eo)]

RECURSIVE Reverse(_)
Reverse(s) == IF s = <<>> THEN <<>> ELSE Append(Reverse(Tail(s)), Head(s))

\* nodesBetween.reverse().map(...): a wrapper around each whole text node
RECURSIVE wrapNodes(_, _)
wrapNodes(d, nodes) ==
  IF nodes = <<>> THEN d
  ELSE LET n == Head(nodes) IN
       wrapNodes(SubSeq(d, 1, n - 1) \o <<createElement, d[n], CloseTag>>
                   \o SubSeq(d, n + 1, Len(d)),
                 Tail(nodes))

nodeLength(d, n) ==
  IF n # 0 /\ IsText(d, n) THEN Len(d[n].s) ELSE Len(childNodes(d, n))

\* What wrapRange returns: the tree after it, the wrappers of the returned
\* array being the elements flagged isNew; null = TRUE when the array holds a
\* null, refused = TRUE when some surround returned null.

\* return [ surround(range) ]
singleWrapper(wrapper) ==
  [d |-> wrapper.d, null |-> ~wrapper.ok, refused |-> ~wrapper.ok]

\* surround(startRange): from the range's start to the end of its container
startWrapper(d, range) ==
  surround(d, createRange(range.sc, range.so,
                          range.sc, nodeLength(d, range.sc)))

\* node n of the tree d in the tree `after` the head was wrapped: the nodes
\* behind the start container have moved by what the head inserted
moved(d, after, range, n) ==
  IF n > range.sc THEN n + (Len(after) - Len(d)) ELSE n

\* surround(endRange): from before the end container to the range's end.
\* selectNode of the container element starts outside it, and the container
\* is then partially contained
endWrapper(d, endContainer, endOffset) ==
  IF endContainer = 0
  THEN [ok |-> FALSE, d |-> d]
  ELSE surround(d, createRange(parentNode(d, endContainer), 0,
                               endContainer, endOffset))

\* the wrappers around the text nodes in between, and the returned array
centerWrappers(d, range, head, tail) ==
  LET isValidRange == head.ok /\ tail.ok
      reversed == Reverse(textNodesBetween(d, range.sc, range.ec))
  IN [d |-> IF isValidRange
            THEN wrapNodes(tail.d,
                           [i \in 1..Len(reversed) |->
                              moved(d, head.d, range, reversed[i])])
            ELSE tail.d,
      null |-> FALSE,
      refused |-> ~isValidRange]

\* the branch of wrapRange for a range over several nodes, its head wrapped
splitRange(d, range, head) ==
  centerWrappers(d, range, head,
                 endWrapper(head.d, moved(d, head.d, range, range.ec),
                            range.eo))

wrapRange(d, range) ==
  IF range.sc # 0 /\ IsText(d, range.sc) /\ Len(d[range.sc].s) = range.so
  THEN [d |-> d, null |-> FALSE, refused |-> FALSE]
  ELSE IF range.sc = range.ec
  THEN singleWrapper(surround(d, range))
  ELSE splitRange(d, range, startWrapper(d, range))

\* ---------------------------------------------------------------- markers
IsMarker(d, i) == IsElement(d, i) /\ d[i].cls = "r6o-annotation"

NumMarkers(d) == Cardinality({i \in 1..Len(d) : IsMarker(d, i)})

\* querySelectorAll('.r6o-annotation[data-id="id"]')
querySelectorAll(d, id) == {i \in 1..Len(d) : IsMarker(d, i) /\ d[i].id = id}

findAnnotationSpans(d, id) == querySelectorAll(d, id)

\* bindAnnotation on the wrappers wrapRange has just returned
bindAnnotation(d, annotation) ==
  [i \in 1..Len(d) |->
     IF d[i].isNew
     THEN [d[i] EXCEPT !.anno = annotation, !.id = annotation.id]
     ELSE d[i]]

\* applyStyles on the same wrappers, without a formatter: className is
\* overwritten with 'r6o-annotation' and the hover listeners are added
applyStyles(d) ==
  [i \in 1..Len(d) |->
     IF d[i].isNew
     THEN [d[i] EXCEPT !.cls = "r6o-annotation", !.hover = FALSE,
                       !.isNew = FALSE]
     ELSE d[i]]

\* an unwrap that takes the markers inside the given ones along
_unwrapWithInner(d, highlightSpans) ==
  LET gone == highlightSpans \cup
                {i \in 1..Len(d) :
                   /\ IsMarker(d, i)
                   /\ \E span \in highlightSpans :
                        span < i /\ i < MatchClose(d, span)}
      closes == {MatchClose(d, i) : i \in gone}
  IN Flatten([i \in 1..Len(d) |->
                IF i \in gone \cup closes THEN <<>> ELSE <<d[i]>>])

_unwrapHighlightings(d, highlightSpans) ==
  LET closes == {MatchClose(d, i) : i \in highlightSpans}
      replacement(i) ==
        IF i \in highlightSpans
        THEN IF MatchClose(d, i) = i + 1 THEN <<TextNode(<<>>)>> ELSE <<>>
        ELSE IF i \in closes THEN <<>> ELSE <<d[i]>>
  IN Flatten([i \in 1..Len(d) |-> replacement(i)])

RECURSIVE mergeText(_)
mergeText(d) ==
  IF Len(d) < 2 THEN d
  ELSE IF d[1].k = "T" /\ d[2].k = "T"
  THEN mergeText(<<TextNode(d[1].s \o d[2].s)>> \o SubSeq(d, 3, Len(d)))
  ELSE <<d[1]>> \o mergeText(Tail(d))

IsEmptyText(t) == t.k = "T" /\ t.s = <<>>

\* a normalize that drops the empty text nodes and merges nothing
normalizeWithoutMerge(d) == SelectSeq(d, LAMBDA t : ~IsEmptyText(t))

\* this.el.normalize(): empty text nodes go, adjacent text nodes merge
normalize(d) == mergeText(SelectSeq(d, LAMBDA t : ~IsEmptyText(t)))

removeAnnotation(d, annotation) ==
  normalize(_unwrapHighlightings(d, findAnnotationSpans(d, annotation.id)))

\* bindAnnotation and applyStyles on what wrapRange returned
styleSpans(spans, annotation) ==
  IF spans.null
  THEN [d |-> spans.d, error |-> TRUE]      \* binding null: TypeError
  ELSE [d |-> applyStyles(bindAnnotation(spans.d, annotation)),
        error |-> FALSE]

\* the range from domStart to domEnd, wrapped
renderAt(d, annotation, positions) ==
  IF Len(positions) < 2
  THEN [d |-> d, error |-> TRUE]            \* domEnd is undefined: TypeError
  ELSE styleSpans(wrapRange(d, createRange(positions[1].node,
                                           positions[1].offset,
                                           positions[2].node,
                                           positions[2].offset)),
                  annotation)

\* the try block of _addAnnotation: the tree it leaves and whether it threw
tryRender(d, annotation) ==
  renderAt(d, annotation,
           charOffsetsToDOMPosition(d, <<annotation.start, annotation.end>>))

\* an _addAnnotation without its try and catch
_addAnnotationUncaught(d, annotation) ==
  IF annotation.type = "shadow"
  THEN [d |-> removeAnnotation(d, annotation), thrown |-> FALSE]
  ELSE [d |-> tryRender(d, annotation).d,
        thrown |-> tryRender(d, annotation).error]

\* _addAnnotation(annotation): the tree after it and whether it threw to its
\* caller; the catch block turns every error of the try block into a warning
_addAnnotation(d, annotation) ==
  IF annotation.type = "shadow"
  THEN [d |-> removeAnnotation(d, annotation), thrown |-> FALSE]
  ELSE [d |-> tryRender(d, annotation).d, thrown |-> FALSE]

\* the first half of addOrUpdateAnnotation: remove the existing highlights.
\* maybePrevious = NoAnno stands for a call without a previous annotation
removeExisting(d, annotation, maybePrevious) ==
  LET annoSpans == findAnnotationSpans(d, annotation.id)
      prevSpans == IF maybePrevious # NoAnno
                   THEN findAnnotationSpans(d, maybePrevious.id) ELSE {}
      spans == annoSpans \cup prevSpans
  IN IF spans # {} THEN normalize(_unwrapHighlightings(d, spans)) ELSE d

addOrUpdateAnnotation(d, annotation, maybePrevious) ==
  LET removed == removeExisting(d, annotation, maybePrevious) IN
  IF annotation.type # "shadow"
  THEN _addAnnotation(removed, annotation).d
  ELSE removed

clear(d) ==
  normalize(_unwrapHighlightings(d, {i \in 1..Len(d) : IsMarker(d, i)}))

\* overrideId(originalId, forcedId); allSpans[0] of an empty list throws
overrideIdThrows(d, originalId) == querySelectorAll(d, originalId) = {}

overrideId(d, originalId, forcedId) ==
  LET allSpans == querySelectorAll(d, originalId)
      first == CHOOSE i \in allSpans : \A j \in allSpans : i <= j
      updatedAnnotation == [d[first].anno EXCEPT !.id = forcedId]
  IN [i \in 1..Len(d) |->
        IF i \in allSpans
        THEN [d[i] EXCEPT !.anno = updatedAnnotation, !.id = forcedId]
        ELSE d[i]]

\* ------------------------------------------------------------------ hover
\* this.highlightedAnnotationId: '' from the constructor on, written nowhere
highlightedAnnotationId == 0

MarkerAncestors(d, i) == {j \in Ancestors(d, i) : IsMarker(d, j)}

Descendants(d, e) == (e + 1)..(MatchClose(d, e) - 1)

highlightAnnotation(d, id) ==
  [i \in 1..Len(d) |->
     IF i \in querySelectorAll(d, id) THEN [d[i] EXCEPT !.hover = TRUE]
     ELSE d[i]]

unhighlightAnnotation(d, id) ==
  [i \in 1..Len(d) |->
     IF i \in querySelectorAll(d, id) THEN [d[i] EXCEPT !.hover = FALSE]
     ELSE d[i]]

\* a hover test that lets every marker through
isAnyParent(d, span) == TRUE

\* !span.closest('.r6o-annotation:not([data-id="' + id + '"])')
isHighestParent(d, span) ==
  ~\E j \in MarkerAncestors(d, span) \cup {span} : d[j].id # d[span].id

handleMouseOver(d, span) ==
  LET id == d[span].id
      highlightedChild ==
        \E j \in Descendants(d, span) :
          IsMarker(d, j) /\ d[j].id = highlightedAnnotationId
  IN IF highlightedAnnotationId # 0 /\ highlightedChild THEN d
     ELSE IF isHighestParent(d, span) THEN highlightAnnotation(d, id)
     ELSE d

handleMouseOut(d, span) ==
  LET id == d[span].id IN
  IF isHighestParent(d, span) /\ id # highlightedAnnotationId
  THEN unhighlightAnnotation(d, id)
  ELSE d

\* the markers an event on `target` passes, from the target outwards: each
\* marker has had its listeners since applyStyles
RECURSIVE listenersFrom(_, _)
listenersFrom(d, node) ==
  IF node = 0 THEN <<>>
  ELSE (IF IsMarker(d, node) THEN <<node>> ELSE <<>>)
         \o listenersFrom(d, parentNode(d, node))

RECURSIVE bubbleMouseOver(_, _)
bubbleMouseOver(d, path) ==
  IF path = <<>> THEN d
  ELSE bubbleMouseOver(handleMouseOver(d, Head(path)), Tail(path))

RECURSIVE bubbleMouseOut(_, _)
bubbleMouseOut(d, path) ==
  IF path = <<>> THEN d
  ELSE bubbleMouseOut(handleMouseOut(d, Head(path)), Tail(path))

\* -------------------------------------------------------- getAnnotationsAt
RECURSIVE getAnnotationsRecursive(_, _, _)
getAnnotationsRecursive(d, element, annotations) ==
  LET parent == parentNode(d, element)
      pushed == Append(annotations, d[element].anno)
  IN IF parent # 0 /\ IsMarker(d, parent)
     THEN getAnnotationsRecursive(d, parent, pushed)
     ELSE pushed

\* stable, by (a.end - a.start) - (b.end - b.start)
RECURSIVE insertByLength(_, _)
insertByLength(sorted, a) ==
  IF sorted = <<>> THEN <<a>>
  ELSE IF (a.end - a.start) - (Head(sorted).end - Head(sorted).start) < 0
       THEN <<a>> \o sorted
       ELSE <<Head(sorted)>> \o insertByLength(Tail(sorted), a)

RECURSIVE sortByRangeLength(_)
sortByRangeLength(annotations) ==
  IF annotations = <<>> THEN <<>>
  ELSE insertByLength(
         sortByRangeLength(SubSeq(annotations, 1, Len(annotations) - 1)),
         annotations[Len(annotations)])

getAnnotationsAt(d, element) ==
  sortByRangeLength(getAnnotationsRecursive(d, element, <<>>))

\* --------------------------------------------------------- SelectionHandler
IsSelection(d, i) == IsElement(d, i) /\ d[i].cls = "r6o-selection"

NumSelections(d) == Cardinality({i \in 1..Len(d) : IsSelection(d, i)})

\* spans.forEach(span => span.className = 'r6o-selection')
setSelectionClass(d) ==
  [i \in 1..Len(d) |->
     IF d[i].isNew
     THEN [d[i] EXCEPT !.cls = "r6o-selection", !.isNew = FALSE]
     ELSE d[i]]

\* each selection span gives way to a text node of its textContent; a span
\* inside another one goes with it
RECURSIVE replaceSelectionSpans(_, _)
replaceSelectionSpans(d, i) ==
  IF i > Len(d) THEN <<>>
  ELSE IF IsSelection(d, i)
  THEN <<TextNode(textContent(d, i))>>
         \o replaceSelectionSpans(d, MatchClose(d, i) + 1)
  ELSE <<d[i]>> \o replaceSelectionSpans(d, i + 1)

removeSelectionSpans(d) == normalize(replaceSelectionSpans(d, 1))

\* the number of characters before a boundary point
charsBefore(d, node, offset) ==
  IF node # 0 /\ IsText(d, node)
  THEN Len(textOf(d, 1, node - 1)) + offset
  ELSE Len(textOf(d, 1, Gap(d, node, offset) - 1))

\* rangeToSelection(range, el): the selection stub, with the offsets of the
\* selected text in the container's text
rangeToSelection(d, range) ==
  [id |-> 0,
   start |-> charsBefore(d, range.sc, range.so),
   end |-> charsBefore(d, range.ec, range.eo),
   type |-> "selection", sel |-> TRUE]

Depth(d, i) == Cardinality(Ancestors(d, i))

\* getExactOverlaps(stub, spans): the annotations of the markers the new spans
\* touch (those around them and those inside them) that have exactly the
\* stub's start and end, the marker closest to the root first
touchedMarkers(d, spans) ==
  {j \in 1..Len(d) :
     /\ IsMarker(d, j)
     /\ \E w \in spans : j \in Ancestors(d, w) \/ w \in Ancestors(d, j)}

RECURSIVE byNesting(_, _)
byNesting(d, markers) ==
  IF markers = {} THEN <<>>
  ELSE LET top == CHOOSE m \in markers :
                    \A n \in markers :
                      \/ Depth(d, m) < Depth(d, n)
                      \/ Depth(d, m) = Depth(d, n) /\ m <= n
       IN <<d[top].anno>> \o byNesting(d, markers \ {top})

getExactOverlaps(d, stub, spans) ==
  byNesting(d, {j \in touchedMarkers(d, spans) :
                  d[j].anno.start = stub.start /\ d[j].anno.end = stub.end})

\* evt.target.closest('.r6o-annotation'), 0 when there is none
closestMarker(d, target) ==
  LET path == listenersFrom(d, target) IN
  IF path = <<>> THEN 0 ELSE Head(path)

\* the boundary points inside text nodes and those between the children of
\* an element
TextPoints(d) ==
  UNION {{<<n, o>> : o \in 0..Len(d[n].s)} :
           n \in {i \in 1..Len(d) : IsText(d, i)}}

ElementPoints(d) ==
  UNION {{<<n, o>> : o \in 0..Len(childNodes(d, n))} :
           n \in {0} \cup {i \in 1..Len(d) : IsElement(d, i)}}

\* the user's selections: they start in a text node and end in a text node
\* or in an element, and hold at least one character
SelectionRanges(d) ==
  LET before == [p \in TextPoints(d) \cup ElementPoints(d) |->
                   charsBefore(d, p[1], p[2])]
  IN {createRange(pq[1][1], pq[1][2], pq[2][1], pq[2][2]) :
        pq \in {pq \in TextPoints(d) \X (TextPoints(d) \cup ElementPoints(d)) :
                  before[pq[1]] < before[pq[2]]}}

\* ------------------------------------------------------------ the inputs
Ids == 1..MaxId

\* start < end <= TextLen, and one annotation that ends beyond the text
Positioned ==
  {a \in {Anno(id, s, e, "normal") :
            id \in Ids, s \in 0..TextLen, e \in 1..TextLen} : a.start < a.end}
    \cup {Anno(id, 1, TextLen + 1, "normal") : id \in Ids}

\* the position of a shadow annotation plays no part in any operation
Shadows == {Anno(id, 0, 1, "shadow") : id \in Ids}

\* an annotation without a TextPositionSelector has no start and no end
Unpositioned ==
  {[id |-> id, start |-> -1, end |-> -1, type |-> "normal", sel |-> FALSE] :
     id \in Ids}

Annotations == Positioned \cup Shadows \cup Unpositioned

\* one annotation per id stands for the previous annotation and for the
\* annotation to remove: only the id is read
ById == {Anno(id, 0, 1, "normal") : id \in Ids}

InRange(a) ==
  a.type = "normal" /\ a.sel /\ 0 <= a.start /\ a.start < a.end
    /\ a.end <= TextLen

\* the container before any rendering: one text node, or a text node
\* followed by an element that holds the rest of the text
InitialTrees ==
  {<<TextNode(PlainText)>>}
    \cup {<<TextNode(SubSeq(PlainText, 1, k)), PlainElement,
            TextNode(SubSeq(PlainText, k + 1, TextLen)), CloseTag>> :
            k \in 1..(TextLen - 1)}

\* the text leaves of the container with their running offsets
leafWalk(d) ==
  LET props == textNodeProps(d, walkTextNodes(d, Len(ContainerText(d))), 0)
  IN [i \in 1..Len(props) |->
        [text |-> d[props[i].node].s, start |-> props[i].start,
         end |-> props[i].end]]

\* -------------------------------------------------------- Batch Scheduler
\* annotations.filter(a => a.selector('TextPositionSelector') && a.type !== 'shadow')
filterHighlights(annotations) ==
  SelectSeq(annotations, LAMBDA a : a.sel /\ a.type # "shadow")

\* a comparator for ascending starts
compareStartAscending(a, b) == a.start - b.start

\* the comparator of highlights.sort
compareStart(a, b) == b.start - a.start

\* Array.prototype.sort is stable: elements the comparator holds equal keep
\* their order
\* the elements the comparator puts before every other one, in their order,
\* then the same of the rest
RECURSIVE sort(_)
sort(highlights) ==
  IF highlights = <<>> THEN <<>>
  ELSE LET first(a) ==
             \A i \in 1..Len(highlights) : compareStart(a, highlights[i]) <= 0
       IN SelectSeq(highlights, first)
            \o sort(SelectSeq(highlights, LAMBDA a : ~first(a)))

slice(s, from, to) == SubSeq(s, from + 1, IF to < Len(s) THEN to ELSE Len(s))

\* annotations.slice(0, RENDER_BATCH_SIZE)
batchOf(annotations) == slice(annotations, 0, RENDER_BATCH_SIZE)

\* a remainder that loses the first annotation of the next chunk
remainderSkipping(annotations) ==
  slice(annotations, RENDER_BATCH_SIZE + 1, Len(annotations))

\* annotations.slice(RENDER_BATCH_SIZE)
remainderOf(annotations) ==
  slice(annotations, RENDER_BATCH_SIZE, Len(annotations))

\* one call of the forEach: the annotation is handed to _addAnnotation
handOver(r, annotation, handed) ==
  [d |-> r.d, handed |-> Append(handed, annotation), thrown |-> r.thrown]

\* batch.forEach(this._addAnnotation): the calls in the order of the batch,
\* the first half and then the second; an error thrown by a call ends the loop
RECURSIVE forEachAdd(_, _, _)
forEachAdd(d, batch, handed) ==
  IF batch = <<>> THEN [d |-> d, handed |-> handed, thrown |-> FALSE]
  ELSE IF Len(batch) = 1
  THEN handOver(_addAnnotation(d, batch[1]), batch[1], handed)
  ELSE LET half == Len(batch) \div 2
           first == forEachAdd(d, SubSeq(batch, 1, half), handed)
       IN IF first.thrown THEN first
          ELSE forEachAdd(first.d, SubSeq(batch, half + 1, Len(batch)),
                          first.handed)

\* --------------------------------------------------------------- the state
VARIABLES
  dom,            \* the container's subtree
  batches,        \* one record per init call: its closure and its promise
  isEnabled,      \* SelectionHandler.isEnabled
  readOnly,       \* SelectionHandler.readOnly
  hideSelection,  \* the container has the class r6o-hide-selection
  emitted,        \* the 'select' events of the most recent handler, in order
  last,           \* the most recent call, its arguments and what it met
  calls           \* how many calls and user events there have been

vars ==
  <<dom, batches, isEnabled, readOnly, hideSelection, emitted, last, calls>>

selectionVars == <<isEnabled, readOnly, hideSelection, emitted>>

\* no range: the browser's selection is collapsed
Collapsed == createRange(-1, -1, -1, -1)

Call(op, anno, a, b) ==
  [op |-> op, anno |-> anno, a |-> a, b |-> b, threw |-> FALSE,
   refused |-> FALSE, leaves |-> <<>>, range |-> Collapsed,
   positions |-> <<>>]

\* a 'select' event: its selection (NoAnno for the empty event) and whether
\* its element is an existing marker
Event(selection, marker) == [selection |-> selection, marker |-> marker]

\* a call from the application or an event from the user
Called == calls < MaxCalls /\ calls' = calls + 1

\* after the constructors; readOnly is the constructor's argument
Start(readOnlyArg) ==
  /\ dom \in InitialTrees
  /\ batches = <<>>
  /\ isEnabled = TRUE
  /\ readOnly = readOnlyArg
  /\ hideSelection = FALSE
  /\ emitted = <<>>
  /\ last = Call("new", NoAnno, 0, 0)
  /\ calls = 0

\* the Highlighter alone: no selection is ever made
Init == Start(FALSE)

InitSelect == \E readOnlyArg \in BOOLEAN : Start(readOnlyArg)

\* init(annotations): filter, sort, render(highlights) requests the first frame
init(annotations) ==
  /\ Called
  /\ batches' = Append(batches,
       [annotations |-> annotations,
        highlights |-> sort(filterHighlights(annotations)),
        queue |-> sort(filterHighlights(annotations)),
        handed |-> <<>>,
        resolved |-> 0,
        frame |-> TRUE])
  /\ last' = Call("init", NoAnno, Len(batches) + 1, 0)
  /\ UNCHANGED <<dom, selectionVars>>

\* init, at most MaxBatches times
InitCall(annotations) == Len(batches) < MaxBatches /\ init(annotations)

\* the frame callback after its forEach: render(remainder) requests the next
\* frame, or the promise is resolved.  When the chunk is one annotation whose
\* id has no marker yet, last keeps it and the leaves it met.
afterForEach(b, batch, remainder, r) ==
  LET single == Len(batch) = 1 /\ querySelectorAll(dom, batch[1].id) = {}
  IN /\ dom' = r.d
     /\ batches' = [batches EXCEPT
          ![b].handed = r.handed,
          ![b].queue = IF r.thrown THEN @ ELSE remainder,
          ![b].frame = ~r.thrown /\ Len(remainder) > 0,
          ![b].resolved =
             IF ~r.thrown /\ Len(remainder) = 0 THEN @ + 1 ELSE @]
     /\ last' = [Call("frame", IF single THEN batch[1] ELSE NoAnno,
                      b, Len(batch))
                   EXCEPT !.threw = r.thrown,
                          !.leaves = IF single THEN leafWalk(dom) ELSE <<>>]

\* the requestAnimationFrame callback of render(annotations)
RenderFrame(b) ==
  /\ b \in 1..Len(batches)
  /\ batches[b].frame
  /\ afterForEach(b, batchOf(batches[b].queue), remainderOf(batches[b].queue),
                  forEachAdd(dom, batchOf(batches[b].queue),
                             batches[b].handed))
  /\ UNCHANGED <<selectionVars, calls>>

AddOrUpdate(annotation, maybePrevious) ==
  /\ Called
  /\ dom' = addOrUpdateAnnotation(dom, annotation, maybePrevious)
  /\ last' = [Call("addOrUpdateAnnotation", annotation, 0, 0)
                EXCEPT !.leaves =
                  leafWalk(removeExisting(dom, annotation, maybePrevious))]
  /\ UNCHANGED <<batches, selectionVars>>

\* last.b = 1 when the call unwraps what the preceding call has wrapped;
\* last.leaves are then the leaves from before that wrap
Remove(annotation) ==
  /\ Called
  /\ dom' = removeAnnotation(dom, annotation)
  /\ LET wrapped ==
           /\ last.op \in {"addOrUpdateAnnotation", "frame"}
           /\ last.anno.id = annotation.id
           /\ last.leaves # <<>>
           /\ querySelectorAll(dom, annotation.id) # {}
     IN last' = [Call("removeAnnotation", annotation, 0,
                      IF wrapped THEN 1 ELSE 0)
                   EXCEPT !.leaves = IF wrapped THEN last.leaves ELSE <<>>]
  /\ UNCHANGED <<batches, selectionVars>>

Clear ==
  /\ Called
  /\ dom' = clear(dom)
  /\ last' = Call("clear", NoAnno, 0, 0)
  /\ UNCHANGED <<batches, selectionVars>>

OverrideId(originalId, forcedId) ==
  /\ Called
  /\ dom' = IF overrideIdThrows(dom, originalId) THEN dom
            ELSE overrideId(dom, originalId, forcedId)
  /\ last' = [Call("overrideId", NoAnno, originalId, forcedId)
                EXCEPT !.threw = overrideIdThrows(dom, originalId)]
  /\ UNCHANGED <<batches, selectionVars>>

\* _unwrapHighlightings(spans) on the markers of one id; the caller keeps the
\* array.  last.b is the number of its spans
Unwrap(id) ==
  /\ Called
  /\ dom' = _unwrapHighlightings(dom, findAnnotationSpans(dom, id))
  /\ last' = Call("_unwrapHighlightings", NoAnno, id,
                  Cardinality(findAnnotationSpans(dom, id)))
  /\ UNCHANGED <<batches, selectionVars>>

\* _unwrapHighlightings on the array the last call has unwrapped.  Each of
\* its spans has been removed from the tree: span.parentNode is null and no
\* child is left, so parent.insertBefore throws on the first span, before
\* anything is changed
UnwrapAgain ==
  /\ Called
  /\ last.op = "_unwrapHighlightings"
  /\ dom' = dom
  /\ last' = [Call("_unwrapHighlightings of the same spans", NoAnno,
                   last.a, last.b)
                EXCEPT !.threw = last.b > 0]
  /\ UNCHANGED <<batches, selectionVars>>

\* a direct call of charOffsetsToDOMPosition(charOffsets): it returns the
\* positions; no statement of the mapper throws
MapOffsets(charOffsets) ==
  /\ Called
  /\ last' = [Call("charOffsetsToDOMPosition", NoAnno,
                   charOffsets[1], charOffsets[2])
                EXCEPT !.positions = charOffsetsToDOMPosition(dom, charOffsets)]
  /\ UNCHANGED <<dom, batches, selectionVars>>

\* ------------------------------------------------- SelectionHandler events
\* clearSelection behind its isEnabled test: the tree, the class of the
\* container and the event it emits
clearSelection(d, hidden) ==
  IF isEnabled
  THEN [d |-> removeSelectionSpans(d), hidden |-> FALSE,
        events |-> <<Event(NoAnno, FALSE)>>]
  ELSE [d |-> d, hidden |-> hidden, events |-> <<>>]

NewSpans(d) == {i \in 1..Len(d) : d[i].isNew}

dropNew(d) == [i \in 1..Len(d) |-> [d[i] EXCEPT !.isNew = FALSE]]

\* clearSelection and the 'select' event for an existing annotation
reuseTop(cleared, top, refused) ==
  [d |-> cleared.d, hidden |-> cleared.hidden,
   events |-> cleared.events \o <<Event(top, TRUE)>>,
   threw |-> FALSE, refused |-> refused]

\* the 'select' event: the top-most exact overlap, or the stub
emitSelect(stub, styled, exactOverlaps, refused) ==
  IF exactOverlaps # <<>>
  THEN reuseTop(clearSelection(styled, TRUE), exactOverlaps[1], refused)
  ELSE [d |-> styled, hidden |-> TRUE, events |-> <<Event(stub, FALSE)>>,
        threw |-> FALSE, refused |-> refused]

\* what follows wrapRange in the non-collapsed branch
selectSpans(stub, spans) ==
  IF spans.null          \* span.className of null: the handler throws
  THEN [d |-> dropNew(spans.d), hidden |-> hideSelection, events |-> <<>>,
        threw |-> TRUE, refused |-> spans.refused]
  ELSE emitSelect(stub, setSelectionClass(spans.d),
                  getExactOverlaps(setSelectionClass(spans.d), stub,
                                   NewSpans(spans.d)),
                  spans.refused)

\* the non-collapsed branch of _onMouseUp
selectRange(d, selectedRange) ==
  selectSpans(rangeToSelection(d, selectedRange),
              wrapRange(d, selectedRange))

\* the collapsed branch of _onMouseUp
selectAt(d, target) ==
  LET annotationSpan == closestMarker(d, target) IN
  IF annotationSpan # 0
  THEN <<Event(getAnnotationsAt(d, annotationSpan)[1], TRUE)>>
  ELSE <<Event(NoAnno, FALSE)>>

\* the branches of _onMouseUp, r being what the non-collapsed one gives
mouseUpBranches(target, selectedRange, r) ==
  LET wraps == isEnabled /\ selectedRange # Collapsed /\ ~readOnly
  IN /\ dom' = IF wraps THEN r.d ELSE dom
     /\ hideSelection' = IF wraps THEN r.hidden ELSE hideSelection
     /\ emitted' = IF ~isEnabled THEN <<>>
                   ELSE IF selectedRange = Collapsed
                   THEN selectAt(dom, target)
                   ELSE IF readOnly THEN <<>> ELSE r.events
     /\ last' = [Call("mouseup",
                      IF wraps THEN rangeToSelection(dom, selectedRange)
                      ELSE NoAnno,
                      target, 0)
                   EXCEPT !.range = selectedRange,
                          !.threw = wraps /\ r.threw,
                          !.refused = wraps /\ r.refused]

_onMouseUp(target, selectedRange) ==
  /\ Called
  /\ mouseUpBranches(target, selectedRange, selectRange(dom, selectedRange))
  /\ UNCHANGED <<batches, isEnabled, readOnly>>

\* a mousedown: _onMouseDown on the container when the target is inside it,
\* _onDocumentMouseDown everywhere
_onMouseDown(inside, button) ==
  /\ Called
  /\ LET clears == IF inside THEN button = 0 ELSE isEnabled
         r == clearSelection(dom, hideSelection)
     IN /\ dom' = IF clears THEN r.d ELSE dom
        /\ hideSelection' = IF clears THEN r.hidden ELSE hideSelection
        /\ emitted' = IF clears THEN r.events ELSE <<>>
  /\ last' = Call("mousedown", NoAnno, IF inside THEN 1 ELSE 0, button)
  /\ UNCHANGED <<batches, isEnabled, readOnly>>

\* set enabled(enabled)
SetEnabled(enabled) ==
  /\ Called
  /\ isEnabled' = enabled
  /\ last' = Call("enabled", NoAnno, 0, 0)
  /\ UNCHANGED <<dom, batches, readOnly, hideSelection, emitted>>

\* ------------------------------------------------------------ hover events
\* the elements the pointer can be over: the container and what it holds
Targets(d) == {0} \cup {i \in 1..Len(d) : IsElement(d, i)}

MouseOver(target) ==
  /\ dom' = bubbleMouseOver(dom, listenersFrom(dom, target))
  /\ last' = Call("mouseover", NoAnno, target, 0)
  /\ UNCHANGED <<batches, selectionVars, calls>>

MouseOut(target) ==
  /\ dom' = bubbleMouseOut(dom, listenersFrom(dom, target))
  /\ last' = Call("mouseout", NoAnno, target, 0)
  /\ UNCHANGED <<batches, selectionVars, calls>>

\* ------------------------------------------------------ the specifications
InitInputs == {<<>>} \cup {<<a>> : a \in Annotations}

Previous == {NoAnno} \cup ById

\* the Highlighter under its public operations
Next ==
  \/ \E annotations \in InitInputs : InitCall(annotations)
  \/ \E b \in 1..MaxBatches : RenderFrame(b)
  \/ \E annotation \in Annotations, maybePrevious \in Previous :
       AddOrUpdate(annotation, maybePrevious)
  \/ \E annotation \in ById : Remove(annotation)
  \/ Clear
  \/ \E originalId \in Ids, forcedId \in Ids : OverrideId(originalId, forcedId)

Spec == Init /\ [][Next]_vars

\* an input that takes n annotations: starts in no order, most of them
\* ending beyond the text, every Sparse-th one inside it
Sparse == 40

LongList(n) ==
  [i \in 1..n |->
     IF i % Sparse = 1
     THEN Anno(1 + (i % MaxId), i % TextLen, (i % TextLen) + 1, "normal")
     ELSE Anno(1 + (i % MaxId), i % (TextLen + 1), TextLen + 1, "normal")]

\* what the filter of init drops
Dropped ==
  <<Anno(1, 0, 1, "shadow"),
    [id |-> 1, start |-> -1, end |-> -1, type |-> "normal", sel |-> FALSE]>>

LongInputs ==
  {Dropped \o LongList(n) :
     n \in {RENDER_BATCH_SIZE, RENDER_BATCH_SIZE + 1,
            2 * RENDER_BATCH_SIZE + 1}}

ShortInputs ==
  InitInputs \cup {<<a, b>> : a \in Annotations, b \in Annotations}

\* the Batch Scheduler: init calls of any size, their frames, and the calls
\* that take markers away between the frames
NextBatch ==
  \/ \E annotations \in ShortInputs \cup LongInputs : InitCall(annotations)
  \/ \E b \in 1..MaxBatches : RenderFrame(b)
  \/ \E annotation \in ById : Remove(annotation)
  \/ Clear

SpecBatch == Init /\ [][NextBatch]_vars

\* init calls whose frames keep firing, and clear between the frames
NextFrames ==
  \/ \E annotations \in InitInputs \cup LongInputs : InitCall(annotations)
  \/ \E b \in 1..MaxBatches : RenderFrame(b)
  \/ Clear

\* render has requested a frame that has not fired: RenderFrame(b) is enabled
FramePending(b) == b \in 1..Len(batches) /\ batches[b].frame

\* animation frames keep firing: weak fairness of RenderFrame(b), with
\* ENABLED <<RenderFrame(b)>>_vars written as FramePending(b)
FrameFairness(b) ==
  []<>(~FramePending(b)) \/ []<><<RenderFrame(b)>>_vars

FairFrames ==
  Init /\ [][NextFrames]_vars /\ \A b \in 1..MaxBatches : FrameFairness(b)

\* the annotations under the selections: the whole text and its middle
Selectable ==
  {Anno(id, 0, TextLen, "normal") : id \in Ids}
    \cup {Anno(id, 1, TextLen - 1, "normal") : id \in Ids}

\* the SelectionHandler over a container with rendered annotations
NextSelect ==
  \/ \E annotation \in Selectable : AddOrUpdate(annotation, NoAnno)
  \/ /\ calls < MaxCalls
     /\ \E selectedRange \in SelectionRanges(dom) :
          _onMouseUp(0, selectedRange)
  \/ \E target \in Targets(dom) : _onMouseUp(target, Collapsed)
  \/ \E inside \in BOOLEAN, button \in {0, 2} : _onMouseDown(inside, button)
  \/ \E enabled \in BOOLEAN : SetEnabled(enabled)

SpecSelect == InitSelect /\ [][NextSelect]_vars

\* the pointer over a container with rendered annotations
NextHover ==
  \/ \E annotation \in Positioned : AddOrUpdate(annotation, NoAnno)
  \/ \E target \in Targets(dom) : MouseOver(target)
  \/ \E target \in Targets(dom) : MouseOut(target)

SpecHover == Init /\ [][NextHover]_vars

\* the offsets of a direct call: inside the text and one beyond it
OffsetPairs == (0..(TextLen + 1)) \X (0..(TextLen + 1))

\* the Offset Mapper called directly over the leaf layouts that rendering
\* leaves
NextMapper ==
  \/ \E annotation \in Positioned : AddOrUpdate(annotation, NoAnno)
  \/ \E charOffsets \in OffsetPairs : MapOffsets(charOffsets)

SpecMapper == Init /\ [][NextMapper]_vars

\* unwrapping, by removeAnnotation and by the unwrap operation itself
NextUnwrap ==
  \/ \E annotation \in Positioned : AddOrUpdate(annotation, NoAnno)
  \/ \E annotation \in ById : Remove(annotation)
  \/ \E id \in Ids : Unwrap(id)
  \/ UnwrapAgain

SpecUnwrap == Init /\ [][NextUnwrap]_vars

\* annotations over the whole text and over its middle, annotations that end
\* beyond the text, and shadows
DocumentInputs ==
  Selectable \cup {Anno(id, 1, TextLen + 1, "normal") : id \in Ids}
    \cup Shadows

\* the Highlighter and the SelectionHandler on one container: init and its
\* frames, the other public operations, and the user's selections
NextDocument ==
  \/ \E annotation \in DocumentInputs : InitCall(<<annotation>>)
  \/ \E b \in 1..MaxBatches : RenderFrame(b)
  \/ \E annotation \in DocumentInputs : AddOrUpdate(annotation, NoAnno)
  \/ \E annotation \in ById : Remove(annotation)
  \/ Clear
  \/ \E originalId \in Ids, forcedId \in Ids : OverrideId(originalId, forcedId)
  \/ /\ calls < MaxCalls
     /\ \E selectedRange \in SelectionRanges(dom) :
          _onMouseUp(0, selectedRange)
  \/ \E inside \in BOOLEAN, button \in {0, 2} : _onMouseDown(inside, button)

SpecDocument == Init /\ [][NextDocument]_vars

\* a list of two chunks, and the lists of one annotation
RestartInputs ==
  {LongList(RENDER_BATCH_SIZE + 1)} \cup {<<a>> : a \in Selectable}

\* init called again while the frames of an earlier init are still to come
NextRestart ==
  \/ /\ Len(batches) < MaxInits
     /\ \E annotations \in RestartInputs : init(annotations)
  \/ \E b \in 1..MaxInits : RenderFrame(b)

SpecRestart == Init /\ [][NextRestart]_vars

\* lists of one chunk and a list of two chunks
GestureInputs ==
  {LongList(RENDER_BATCH_SIZE + 1)} \cup {<<a>> : a \in Selectable}

\* the user's selections and mousedowns between the frames of an init
NextGesture ==
  \/ \E annotations \in GestureInputs : InitCall(annotations)
  \/ \E b \in 1..MaxBatches : RenderFrame(b)
  \/ /\ calls < MaxCalls
     /\ \E selectedRange \in SelectionRanges(dom) :
          _onMouseUp(0, selectedRange)
  \/ \E inside \in BOOLEAN, button \in {0, 2} : _onMouseDown(inside, button)

SpecGesture == Init /\ [][NextGesture]_vars

\* ----------------------------------------------------------- the claims
\* the text inside the markers of one id, in document order
coveredText(d, id) ==
  Flatten([i \in 1..Len(d) |->
             IF IsText(d, i)
                  /\ \E j \in Ancestors(d, i) : IsMarker(d, j) /\ d[j].id = id
             THEN d[i].s ELSE <<>>])

\* the last call has rendered an annotation inside the text whose id had no
\* marker before
RenderedLast ==
  /\ last.op \in {"addOrUpdateAnnotation", "frame"}
  /\ last.leaves # <<>>
  /\ InRange(last.anno)

\* C1: after an annotation with 0 <= start < end <= text length is rendered
\* through addOrUpdateAnnotation or through a frame of init, the markers of
\* its id hold, in document order, exactly the characters [start, end) of the
\* container's text, wherever the leaf boundaries are.
RenderCoversSpan ==
  RenderedLast =>
    coveredText(dom, last.anno.id)
      = Substring(PlainText, last.anno.start, last.anno.end)

nonEmptyLeaves(leaves) == SelectSeq(leaves, LAMBDA l : l.text # <<>>)

\* the last call has unwrapped the annotation the call before it has wrapped
RoundTrip == last.op = "removeAnnotation" /\ last.b = 1

RefusedWrapLeavesNothing ==
  [][(last'.op = "mouseup" /\ calls' = calls + 1 /\ last'.refused)
       => NumSelections(dom') <= NumSelections(dom)]_vars

markerList(d) ==
  LET markers == SelectSeq([i \in 1..Len(d) |-> i],
                           LAMBDA i : IsMarker(d, i))
  IN [k \in 1..Len(markers) |->
        [id |-> d[markers[k]].id, anno |-> d[markers[k]].anno,
         text |-> textContent(d, markers[k])]]

RECURSIVE IsSubsequence(_, _)
IsSubsequence(s, t) ==
  IF s = <<>> THEN TRUE
  ELSE IF t = <<>> THEN FALSE
  ELSE IF Head(s) = Head(t) THEN IsSubsequence(Tail(s), Tail(t))
  ELSE IsSubsequence(s, Tail(t))

\* C4: a frame of init hands its whole chunk to _addAnnotation whatever fails
\* in it, throws nothing, then either requests the next frame or resolves the
\* promise, and leaves every marker that was there with its id, annotation
\* and text.
FailureKeepsBatchGoing ==
  [][\A b \in 1..MaxBatches :
       (b <= Len(batches) /\ batches[b].frame /\ batches' # batches
          /\ last'.op = "frame" /\ last'.a = b)
         => /\ ~last'.threw
            /\ batches'[b].handed
                 = batches[b].handed \o batchOf(batches[b].queue)
            /\ batches'[b].frame \/ batches'[b].resolved = 1
            /\ IsSubsequence(markerList(dom), markerList(dom'))]_vars

HasMarker(d, annotation) ==
  \E m \in 1..Len(d) : IsMarker(d, m) /\ d[m].anno = annotation

FailureWitness ==
  /\ last.op = "frame"
  /\ \E b \in 1..Len(batches) :
       /\ batches[b].resolved = 1
       /\ Len(batches[b].handed) > RENDER_BATCH_SIZE
       /\ \E i, j, k \in 1..Len(batches[b].handed) :
            /\ i < j /\ j < RENDER_BATCH_SIZE /\ RENDER_BATCH_SIZE < k
            /\ HasMarker(dom, batches[b].handed[i])
            /\ ~InRange(batches[b].handed[j])
            /\ HasMarker(dom, batches[b].handed[k])

\* the shadow annotations of a list whose id no other annotation of the list
\* has
LoneShadows(annotations) ==
  {annotations[i].id : i \in
     {i \in 1..Len(annotations) :
        /\ annotations[i].type = "shadow"
        /\ \A j \in 1..Len(annotations) :
             annotations[j].id = annotations[i].id
               => annotations[j].type = "shadow"}}

\* C5: after addOrUpdateAnnotation of a shadow annotation, and after the last
\* frame of an init whose list holds a shadow annotation, no marker carries
\* that annotation's id.
ShadowLeavesNoMarker ==
  /\ (last.op = "addOrUpdateAnnotation" /\ last.anno.type = "shadow")
       => querySelectorAll(dom, last.anno.id) = {}
  /\ \A b \in 1..Len(batches) :
       (last.op = "frame" /\ last.a = b /\ batches[b].resolved = 1)
         => \A id \in LoneShadows(batches[b].annotations) :
              querySelectorAll(dom, id) = {}

\* the annotations of the markers with exactly the stub's start and end
ExactlyRendered(d, stub) ==
  {d[m].anno : m \in {m \in 1..Len(d) :
                        /\ IsMarker(d, m)
                        /\ d[m].anno.start = stub.start
                        /\ d[m].anno.end = stub.end}}

\* C6: when an enabled handler that is not read-only handles the mouseup of
\* a selection whose start and end are those of a rendered annotation, the
\* last 'select' event carries such an annotation with its marker, and no
\* selection span is left in the container.
ExactOverlapReuses ==
  [][(/\ last'.op = "mouseup" /\ calls' = calls + 1
      /\ last'.range # Collapsed
      /\ isEnabled /\ ~readOnly
      /\ ExactlyRendered(dom, rangeToSelection(dom, last'.range)) # {})
       => /\ emitted' # <<>>
          /\ emitted'[Len(emitted')].marker
          /\ emitted'[Len(emitted')].selection
               \in ExactlyRendered(dom, rangeToSelection(dom, last'.range))
          /\ NumSelections(dom') = 0]_vars

\* the pointer enters a marker that lies in a marker of another annotation
\* while nothing is highlighted
EntersNested(d, target) ==
  /\ target # 0 /\ IsMarker(d, target)
  /\ \E j \in MarkerAncestors(d, target) : d[j].id # d[target].id
  /\ \A i \in 1..Len(d) : ~d[i].hover

outermostMarker(d, target) ==
  CHOOSE j \in MarkerAncestors(d, target) \cup {target} :
    MarkerAncestors(d, j) = {}

\* C7 as stated: a mouseover on a marker nested in the marker of another
\* annotation puts the hover class on exactly the markers of the inner
\* annotation's id.
HoverHighlightsInner ==
  [][(last'.op = "mouseover" /\ EntersNested(dom, last'.a))
       => \A i \in 1..Len(dom') :
            IsMarker(dom', i)
              => (dom'[i].hover <=> dom'[i].id = dom[last'.a].id)]_vars

\* C7: a mouseover on a marker nested in the marker of another annotation
\* puts the hover class on exactly the markers that carry the id of the
\* outermost marker around it.
HoverHighlightsOutermost ==
  [][(last'.op = "mouseover" /\ EntersNested(dom, last'.a))
       => \A i \in 1..Len(dom') :
            IsMarker(dom', i)
              => (dom'[i].hover
                    <=> dom'[i].id = dom[outermostMarker(dom, last'.a)].id)]_vars

HoverWitness ==
  /\ last.op = "mouseover"
  /\ last.a # 0 /\ IsMarker(dom, last.a)
  /\ ~dom[last.a].hover
  /\ \E j \in MarkerAncestors(dom, last.a) :
       dom[j].id # dom[last.a].id /\ dom[j].hover

Count(a, s) == Len(SelectSeq(s, LAMBDA x : x = a))

\* the promise of a batch is resolved at most once, and when it is resolved
\* no frame is pending and what was handed to _addAnnotation is, one for one,
\* what the filter retains of the input
ResolvedAfterLastChunk ==
  \A b \in 1..Len(batches) :
    /\ batches[b].resolved <= 1
    /\ batches[b].resolved = 1 =>
         /\ ~batches[b].frame
         /\ Len(batches[b].handed)
              = Len(filterHighlights(batches[b].annotations))
         /\ \A i \in 1..Len(batches[b].annotations) :
              LET a == batches[b].annotations[i] IN
              Count(a, batches[b].handed)
                = IF a.sel /\ a.type # "shadow"
                  THEN Count(a, batches[b].annotations) ELSE 0

\* C8: the promise of every init call is resolved at most once, only when
\* no chunk remains and every retained annotation has been handed to
\* _addAnnotation, and while animation frames keep firing it is resolved in
\* the end.
ResolvedOnce ==
  /\ []ResolvedAfterLastChunk
  /\ \A b \in 1..MaxBatches :
       (Len(batches) >= b) ~> (Len(batches) >= b /\ batches[b].resolved = 1)

ResolvedWitness ==
  \E b \in 1..Len(batches) :
    /\ batches[b].resolved = 1
    /\ Len(batches[b].handed) > 2 * RENDER_BATCH_SIZE
    /\ Len(batches[b].annotations) > Len(batches[b].handed)

\* C9: within one init batch, across its chunks, no annotation is handed to
\* _addAnnotation after one with a smaller start; stated on neighbours, which
\* gives it for every pair.
NonIncreasingStart ==
  \A b \in 1..Len(batches) :
    \A i \in 1..(Len(batches[b].handed) - 1) :
      batches[b].handed[i].start >= batches[b].handed[i + 1].start

OrderWitness ==
  \E b \in 1..Len(batches) :
    /\ Len(batches[b].handed) > RENDER_BATCH_SIZE
    /\ batches[b].handed[1].start > batches[b].handed[RENDER_BATCH_SIZE + 1].start
    /\ \E i \in 1..(Len(batches[b].annotations) - 1) :
         /\ batches[b].annotations[i].type = "normal"
         /\ batches[b].annotations[i].sel
         /\ batches[b].annotations[i].start
              < batches[b].annotations[i + 1].start

\* C10: every marker carries an annotation and that annotation's id, the
\* markers of one id carry the same annotation, and after overrideId from one
\* id to another no marker carries the first id.
MarkerIdentity ==
  /\ \A i \in 1..Len(dom) :
       IsMarker(dom, i) =>
         /\ dom[i].anno # NoAnno
         /\ dom[i].id = dom[i].anno.id
         /\ \A j \in 1..Len(dom) :
              (IsMarker(dom, j) /\ dom[j].id = dom[i].id)
                => dom[j].anno = dom[i].anno
  /\ (last.op = "overrideId" /\ ~last.threw /\ last.a # last.b)
       => querySelectorAll(dom, last.a) = {}

\* C11: removeAnnotation, findAnnotationSpans, highlightAnnotation,
\* unhighlightAnnotation and overrideId, called for an id that no marker
\* carries, throw nothing and leave the tree as it was.
NoMarkerIsNoOp ==
  [][/\ \A id \in Ids :
          querySelectorAll(dom, id) = {}
            => /\ findAnnotationSpans(dom, id) = {}
               /\ highlightAnnotation(dom, id) = dom
               /\ unhighlightAnnotation(dom, id) = dom
     /\ (/\ calls' = calls + 1
         /\ last'.op = "removeAnnotation"
         /\ querySelectorAll(dom, last'.anno.id) = {})
          => (~last'.threw /\ dom' = dom)
     /\ (/\ calls' = calls + 1
         /\ last'.op = "overrideId"
         /\ querySelectorAll(dom, last'.a) = {})
          => (~last'.threw /\ dom' = dom)]_vars

\* C12: a direct call of charOffsetsToDOMPosition with an offset beyond the
\* length of the container's text reports an error to its caller and returns
\* no positions.
OffsetOutOfRangeRefused ==
  (last.op = "charOffsetsToDOMPosition" /\ Max(last.a, last.b) > TextLen)
    => (last.threw /\ last.positions = <<>>)

\* C13: removeAnnotation called a second time for the same annotation, and
\* the unwrap operation called a second time on the same markers, throw
\* nothing and change neither the text nor the tree.
UnwrapIdempotent ==
  [][/\ (/\ calls' = calls + 1
         /\ last.op = "removeAnnotation"
         /\ last'.op = "removeAnnotation"
         /\ last'.anno.id = last.anno.id)
          => (~last'.threw /\ dom' = dom)
     /\ (/\ calls' = calls + 1
         /\ last'.op = "_unwrapHighlightings of the same spans")
          => (~last'.threw /\ dom' = dom)]_vars

\* C14: in every reachable state the text leaves of the container, in
\* document order, spell the container's plain text: no init chunk,
\* addOrUpdateAnnotation, removeAnnotation, clear, overrideId, mouseup or
\* mousedown adds, drops or reorders a character.
TextPreserved == ContainerText(dom) = PlainText

\* a selection whose tail was refused, over a container with markers
TextPreservedWitness ==
  /\ last.op = "mouseup"
  /\ last.refused
  /\ NumMarkers(dom) > 0
  /\ NumSelections(dom) > 0

\* the annotations of a marker and of the markers around it
enclosingAnnotations(d, m) ==
  {d[j].anno : j \in MarkerAncestors(d, m) \cup {m}}

spanLength(a) == a.end - a.start

\* C15: getAnnotationsAt(marker) returns the annotation of the marker and of
\* every marker around it, one entry each, the shorter span first; and a click
\* on a target inside a marker emits 'select' with an annotation of the
\* shortest span among those of the markers around the clicked one.
AnnotationsAtShortestFirst ==
  /\ \A m \in 1..Len(dom) :
       IsMarker(dom, m) =>
         LET result == getAnnotationsAt(dom, m) IN
         /\ Len(result) = Cardinality(MarkerAncestors(dom, m)) + 1
         /\ {result[i] : i \in 1..Len(result)} = enclosingAnnotations(dom, m)
         /\ \A i \in 1..(Len(result) - 1) :
              spanLength(result[i]) <= spanLength(result[i + 1])
  /\ (/\ last.op = "mouseup" /\ last.range = Collapsed /\ isEnabled
      /\ closestMarker(dom, last.a) # 0)
       => /\ Len(emitted) = 1
          /\ emitted[1].marker
          /\ emitted[1].selection
               \in enclosingAnnotations(dom, closestMarker(dom, last.a))
          /\ \A a \in enclosingAnnotations(dom, closestMarker(dom, last.a)) :
               spanLength(emitted[1].selection) <= spanLength(a)

\* C16: once init has been called again, no frame of an earlier init hands
\* any further annotation to _addAnnotation.
NewInitStopsEarlier ==
  [][\A b \in 1..Len(batches) :
       b < Len(batches) => batches'[b].handed = batches[b].handed]_vars

\* the first leaf of a walk whose running offsets take in the offset o
leafAt(leaves, o) ==
  CHOOSE i \in 1..Len(leaves) :
    /\ leaves[i].start <= o /\ o <= leaves[i].end
    /\ \A j \in 1..(i - 1) : ~(leaves[j].start <= o /\ o <= leaves[j].end)

\* the texts of the head, of the leaves in between and of the tail, for the
\* range from the leaf position of `start` to the leaf position of `end`
subRanges(leaves, start, end) ==
  LET i == leafAt(leaves, start)
      j == leafAt(leaves, end)
  IN IF i = j
     THEN <<Substring(leaves[i].text, start - leaves[i].start,
                      end - leaves[i].start)>>
     ELSE <<Substring(leaves[i].text, start - leaves[i].start,
                      Len(leaves[i].text))>>
            \o [k \in 1..(j - i - 1) |-> leaves[i + k].text]
            \o <<Substring(leaves[j].text, 0, end - leaves[j].start)>>

\* the texts of the markers of one id, in document order
markerTexts(d, id) ==
  LET mine == SelectSeq(markerList(d), LAMBDA m : m.id = id)
  IN [k \in 1..Len(mine) |-> mine[k].text]

\* C17: rendering a range inside one leaf gives one marker with the
\* characters from the start offset to the end offset of that leaf; rendering
\* a range over several leaves gives one head marker from the start offset to
\* the end of the start leaf, one marker around each text leaf in between and
\* one tail marker from the start of the end leaf to the end offset; all of
\* them carry the annotation's id.
WrapsHeadCenterTail ==
  RenderedLast =>
    markerTexts(dom, last.anno.id)
      = subRanges(last.leaves, last.anno.start, last.anno.end)

\* the running offset at which text node n starts
runningStart(d, n) == Len(textOf(d, 1, n - 1))

\* the position of offset o in the first text leaf, in document order, whose
\* running offsets take it in
firstLeafPosition(d, o) ==
  LET takes(n) ==
        /\ IsText(d, n)
        /\ runningStart(d, n) <= o
        /\ o <= runningStart(d, n) + Len(d[n].s)
      node == CHOOSE n \in 1..Len(d) :
                takes(n) /\ \A m \in 1..(n - 1) : ~takes(m)
  IN [charOffset |-> o, node |-> node, offset |-> o - runningStart(d, node)]

\* a direct call of the mapper with start < end inside the text
MappedInside ==
  /\ last.op = "charOffsetsToDOMPosition"
  /\ 0 <= last.a /\ last.a < last.b /\ last.b <= TextLen

\* C18: for offsets start < end inside the text and every leaf layout,
\* charOffsetsToDOMPosition([start, end]) returns two positions, that of
\* start and then that of end, each in the first leaf of the walk whose
\* running offsets take the offset in, at the offset minus the leaf's running
\* start: an offset on the boundary of two leaves goes to the end of the
\* earlier leaf, once.
MapsToFirstLeaf ==
  MappedInside =>
    last.positions = <<firstLeafPosition(dom, last.a),
                       firstLeafPosition(dom, last.b)>>

\* both offsets lie on a boundary between leaves
MapsToFirstLeafWitness ==
  /\ MappedInside
  /\ Len(last.positions) = 2
  /\ \A k \in 1..2 :
       /\ last.positions[k].offset = Len(dom[last.positions[k].node].s)
       /\ \E n \in (last.positions[k].node + 1)..Len(dom) :
            /\ IsText(dom, n)
            /\ runningStart(dom, n) = last.positions[k].charOffset

\* C19: in every reachable state each marker holds at least one character.
NoEmptyMarker ==
  \A i \in 1..Len(dom) : IsMarker(dom, i) => textContent(dom, i) # <<>>

\* the markers of one id, in document order, with their annotation and text
markersOf(d, id) == SelectSeq(markerList(d), LAMBDA m : m.id = id)

\* the markers of id b and the text inside them are in `after` what they
\* are in `before`
SameMarkers(before, after, b) ==
  /\ markersOf(after, b) = markersOf(before, b)
  /\ coveredText(after, b) = coveredText(before, b)

\* C20: removeAnnotation(a), and the removal step of
\* addOrUpdateAnnotation(a, previous), leave the markers of every other id
\* with their id, their annotation and the characters they hold, whether
\* those markers lie inside the removed ones or around them.
UnwrapConfined ==
  /\ \A a \in ById :
       \A b \in Ids \ {a.id} : SameMarkers(dom, removeAnnotation(dom, a), b)
  /\ \A a \in ById, previous \in Previous :
       \A b \in Ids \ {a.id, previous.id} :
         SameMarkers(dom, removeExisting(dom, a, previous), b)

\* a marker lies inside a marker of another id, and removing either
\* annotation takes its markers away
UnwrapConfinedWitness ==
  \E i, j \in 1..Len(dom) :
    /\ IsMarker(dom, i) /\ IsMarker(dom, j)
    /\ dom[i].id # dom[j].id
    /\ j \in Descendants(dom, i)
    /\ markersOf(removeAnnotation(dom, dom[i].anno), dom[i].id) = <<>>
    /\ markersOf(removeAnnotation(dom, dom[j].anno), dom[j].id) = <<>>
    /\ markersOf(removeAnnotation(dom, dom[i].anno), dom[j].id) # <<>>
    /\ markersOf(removeAnnotation(dom, dom[j].anno), dom[i].id) # <<>>

\* a frame of some init has run and another one is still to come
BetweenChunks ==
  \E b \in 1..Len(batches) : batches[b].frame /\ batches[b].handed # <<>>

\* C21: a mouseup or mousedown between the chunks of an init that clears the
\* selection leaves every marker in the tree, with its id, its annotation and
\* its text, so that what a chunk has rendered is still marked when the
\* promise of the batch is resolved.
ClearingKeepsMarkers ==
  [][(/\ BetweenChunks
      /\ last'.op \in {"mousedown", "mouseup"}
      /\ NumSelections(dom) > 0
      /\ NumSelections(dom') = 0)
       => markerList(dom') = markerList(dom)]_vars

====
